---- MODULE Spec2Model ----
(***************************************************************************)
(* A model of kushkgp/pr-summarizer: the LLM summarizer                    *)
(* (src/src/core/summarizer.py, src/llm_summarizer.py), the GitHub clients *)
(* (src/github_client.py, src/src/core/github.py,                          *)
(* src/src/pr_summarizer/core/github_client.py), the drivers               *)
(* (src/main.py, src/src/core/app.py, src/src/pr_summarizer/main.py) and   *)
(* the model download (src/download_model.py,                              *)
(* src/src/pr_summarizer/utils/model_downloader.py).                       *)
(*                                                                         *)
(* Text is a sequence of one-character strings, so that str.strip and      *)
(* str.split are computed character by character as Python computes them. *)
(***************************************************************************)
EXTENDS Integers, Sequences, FiniteSets, TLC

\* ------------------------------------------------------------------ keys

\* The keys of the dictionaries and records of this module. Every record
\* below is written with its keys in this (alphabetical) order.
Keys ==
  [Accept |-> 0, Authorization |-> 0, args |-> 1, base |-> 2, body |-> 3, call |-> 4, comments |-> 5, comments_url |-> 6,
   created_at |-> 7, failAt |-> 8, failedBefore |-> 8, html_url |-> 9, items |-> 9, json |-> 10, kind |-> 11,
   loadError |-> 12, login |-> 13, max_tokens |-> 14, message |-> 15, ncalls |-> 16,
   nloads |-> 17, none |-> 18, number |-> 19, op |-> 20, opsBefore |-> 21, pages |-> 21, prompt |-> 22,
   prs |-> 23, pull |-> 23, raised |-> 24, repo |-> 25, repository_url |-> 26, requests |-> 27,
   state |-> 28, status |-> 29, stop |-> 30, str |-> 31, temperature |-> 32,
   text |-> 33, title |-> 34, total |-> 34, url |-> 35, user |-> 36, value |-> 37, what |-> 38]

\* ------------------------------------------------------------------ bounds

\* Longest listing / longest list handed to summarize_all.
MaxPRs == 3
\* Most tokens a mocked backend reply is assembled from.
MaxTok == 4
\* Most summarization operations one process performs.
MaxOps == 2
\* Most non-empty pages the search endpoint serves.
MaxPages == 2
\* Longest list of pull request shapes handed to a prompt builder.
MaxPromptPRs == 2
\* Most chunks the model file is served in.
MaxChunks == 2
\* Most runs of a download, one after another.
MaxRuns == 3

\* ------------------------------------------------------------------ text

Min(a, b) == IF a <= b THEN a ELSE b

\* The characters str.strip() removes (Python whitespace).
IsSpace(c) == c \in {" ", "\n", "\t", "\r"}

LStrip(s) ==
  LET idx == {i \in 1..Len(s) : ~IsSpace(s[i])}
  IN  IF idx = {} THEN <<>>
      ELSE SubSeq(s, CHOOSE i \in idx : \A j \in idx : i <= j, Len(s))

RStrip(s) ==
  LET idx == {i \in 1..Len(s) : ~IsSpace(s[i])}
  IN  IF idx = {} THEN <<>>
      ELSE SubSeq(s, 1, CHOOSE i \in idx : \A j \in idx : j <= i)

\* str.strip()
Strip(s) == RStrip(LStrip(s))

\* The separator of summarize_all: split("---") and stop=["---"].
Separator == <<"-", "-", "-">>

\* Positions at which sep occurs in s.
Occurrences(s, sep) ==
  {i \in 1..(Len(s) - Len(sep) + 1) : SubSeq(s, i, i + Len(sep) - 1) = sep}

RECURSIVE SplitStr(_, _)
\* str.split(sep): leftmost, non-overlapping occurrences of sep.
SplitStr(s, sep) ==
  LET occ == Occurrences(s, sep)
  IN  IF occ = {} THEN <<s>>
      ELSE LET i == CHOOSE k \in occ : \A j \in occ : k <= j
           IN  <<SubSeq(s, 1, i - 1)>> \o SplitStr(SubSeq(s, i + Len(sep), Len(s)), sep)

RECURSIVE Flatten(_)
\* Concatenation of a sequence of texts.
Flatten(ts) == IF ts = <<>> THEN <<>> ELSE Head(ts) \o Flatten(Tail(ts))

\* ------------------------------------------------------------------ sentinels

\* "Summary not available"
SummaryNotAvailable ==
  <<"S","u","m","m","a","r","y"," ","n","o","t"," ","a","v","a","i","l","a","b","l","e">>

\* "Error generating summary"
ErrorGeneratingSummary ==
  <<"E","r","r","o","r"," ","g","e","n","e","r","a","t","i","n","g"," ","s","u","m","m","a","r","y">>

\* "N/A", the default of every dict.get in the prompt builders.
NA == <<"N", "/", "A">>

\* ------------------------------------------------------------------ Python values

\* A dict value: None, or a str.
PyNone == [none |-> TRUE]
PyStr(s) == [str |-> s]

\* dict.get(key, default): the default only when the key is absent.
DictGet(d, key, default) == IF key \in DOMAIN d THEN d[key] ELSE default

\* What an f-string renders for a value: str(None) is "None".
FormatValue(x) == IF x = PyNone THEN <<"N", "o", "n", "e">> ELSE x.str

\* str(i), as the f-strings render an index, a pull request number, a count
\* or a status code (0..999).
IntToStr(i) ==
  LET d(k) == <<"0","1","2","3","4","5","6","7","8","9">>[k + 1]
  IN  IF i < 10 THEN <<d(i)>>
      ELSE IF i < 100 THEN <<d(i \div 10), d(i % 10)>>
      ELSE <<d(i \div 100), d((i \div 10) % 10), d(i % 10)>>

\* ------------------------------------------------------------------ prompt builders
\* The fixed parts of a template are kept as whole pieces; the rendered
\* fields are character sequences.

\* LLMSummarizer._format_pr_prompt
FormatPrPrompt(pr) ==
  <<"Please provide a concise summary of this pull request:\n\nTitle: ">>
    \o FormatValue(DictGet(pr, "title", PyStr(NA)))
    \o <<"\nDescription: ">> \o FormatValue(DictGet(pr, "body", PyStr(NA)))
    \o <<"\nCreated At: ">> \o FormatValue(DictGet(pr, "created_at", PyStr(NA)))
    \o <<"\nStatus: ">> \o FormatValue(DictGet(pr, "state", PyStr(NA)))
    \o <<"\n\nFocus on:\n1. The main purpose of the changes\n2. Key technical details\n3. Impact on the codebase\n\nSummary:">>

\* The lines one PR contributes to the all-PRs prompt (the loop body).
FormatOnePrBlock(i, pr) ==
  <<"PR #">> \o IntToStr(i) \o <<":\n">>
    \o <<"Title: ">> \o FormatValue(DictGet(pr, "title", PyStr(NA))) \o <<"\n">>
    \o <<"Description: ">> \o FormatValue(DictGet(pr, "body", PyStr(NA))) \o <<"\n">>
    \o <<"Created At: ">> \o FormatValue(DictGet(pr, "created_at", PyStr(NA))) \o <<"\n">>
    \o <<"Status: ">> \o FormatValue(DictGet(pr, "state", PyStr(NA))) \o <<"\n\n">>

\* LLMSummarizer._format_all_prs_prompt
FormatAllPrsPrompt(prs) ==
  <<"Please provide concise summaries for each of these pull requests:\n\n">>
    \o Flatten([i \in 1..Len(prs) |-> FormatOnePrBlock(i, prs[i])])
    \o <<"For each PR, focus on:\n1. The main purpose of the changes\n2. Key technical details\n3. Impact on the codebase\n\nProvide the summaries in order, separated by \"---\" between each PR summary.">>

\* create_summarization_prompt (llm_summarizer.py)
CreateSummarizationPrompt(pr) ==
  <<"Please provide a detailed summary of the following GitHub Pull Request:\n\nTitle: ">>
    \o FormatValue(DictGet(pr, "title", PyStr(NA)))
    \o <<"\nRepository: ">> \o FormatValue(DictGet(pr, "repository_url", PyStr(NA)))
    \o <<"\nCreated At: ">> \o FormatValue(DictGet(pr, "created_at", PyStr(NA)))
    \o <<"\nDescription: ">> \o FormatValue(DictGet(pr, "body", PyStr(NA)))
    \o <<"\n\nPlease include:\n1. Key changes and features\n2. Technical details\n3. Impact and significance\n4. Any notable discussions or decisions\n\nFormat the summary in a clear, professional manner.">>

\* ------------------------------------------------------------------ summary parsing

\* CleanSummaries without its filter: empty fragments are kept.
CleanSummariesKeepEmpty(parts) == [i \in 1..Len(parts) |-> Strip(parts[i])]

\* [s.strip() for s in summaries if s.strip()]
CleanSummaries(parts) ==
  LET kept == SelectSeq(parts, LAMBDA s : Strip(s) # <<>>)
  IN  [i \in 1..Len(kept) |-> Strip(kept[i])]

\* PadOrTruncate without its while loop: the list is cut and never padded.
PadOrTruncateUnpadded(summaries, n) == SubSeq(summaries, 1, Min(n, Len(summaries)))

\* Lines 145-150: summaries[:n], then the while loop appending the sentinel.
PadOrTruncate(summaries, n) ==
  IF Len(summaries) = n THEN summaries
  ELSE LET cut == SubSeq(summaries, 1, Min(n, Len(summaries)))
       IN  cut \o [i \in 1..(n - Len(cut)) |-> SummaryNotAvailable]

\* ParseSummaries splitting at a single dash, a separator that is not the
\* stop sequence.
ParseSummariesAtDash(text, n) ==
  PadOrTruncate(CleanSummaries(SplitStr(Strip(text), <<"-">>)), n)

\* Lines 142-151 of summarize_all: from the reply's text to the returned list.
ParseSummaries(text, n) ==
  PadOrTruncate(CleanSummaries(SplitStr(Strip(text), Separator)), n)

\* ------------------------------------------------------------------ sample inputs

\* The i-th pull request object of a listing response, as GitHub sends it:
\* #10 "Fix bug", #11 "Add feature", ...; every third one has a null body
\* (an empty description).
RawPRAt(i) ==
  [base |-> [repo |-> [html_url |-> PyStr(<<"https://github.com/acme/widgets">>)]],
   body |-> IF i % 3 = 0 THEN PyNone ELSE PyStr(<<"d","e","s","c">>),
   comments_url |-> <<"https://api.github.com/repos/acme/widgets/issues/">>
                      \o IntToStr(9 + i) \o <<"/comments">>,
   created_at |-> PyStr(<<"2","0","2","4">>),
   html_url |-> PyStr(<<"https://github.com/acme/widgets/pull/">> \o IntToStr(9 + i)),
   number |-> 9 + i,
   state |-> PyStr(<<"o","p","e","n">>),
   title |-> PyStr(IF i % 2 = 1 THEN <<"F","i","x"," ","b","u","g">>
                   ELSE <<"A","d","d"," ","f","e","a","t","u","r","e">>),
   user |-> [login |-> PyStr(<<"d","e","v">>)]]

\* The record GitHubClient.get_recent_prs of src/src/core/github.py builds
\* from a pull request object (lines 52-63).
CoreRecord(pr) ==
  [body |-> pr.body,
   created_at |-> pr.created_at,
   number |-> pr.number,
   repository_url |-> pr.base.repo.html_url,
   state |-> pr.state,
   title |-> pr.title,
   user |-> pr.user.login]

\* RootRecord with the fetched comments dropped.
RootRecordWithoutComments(pr, comments) ==
  [body |-> pr.body, comments |-> <<>>, created_at |-> pr.created_at,
   number |-> pr.number, repository_url |-> pr.html_url, state |-> pr.state,
   title |-> pr.title]

\* The record GitHubClient.get_recent_prs of src/github_client.py builds from
\* a pull request object and its fetched comments (lines 96-104).
RootRecord(pr, comments) ==
  [body |-> pr.body,
   comments |-> comments,
   created_at |-> pr.created_at,
   number |-> pr.number,
   repository_url |-> pr.html_url,
   state |-> pr.state,
   title |-> pr.title]

\* The i-th pull request as the summarizer receives it.
PRAt(i) == CoreRecord(RawPRAt(i))

\* The lists of 0..MaxPRs pull requests.
PRLists == {[i \in 1..n |-> PRAt(i)] : n \in 0..MaxPRs}

\* The pieces a mocked reply is assembled from.
Tokens == {<<"a">>, <<" ">>, <<"-">>, Separator}

\* "Summary A\n---\nSummary B"
ExampleReply ==
  <<"S","u","m","m","a","r","y"," ","A","\n","-","-","-","\n",
    "S","u","m","m","a","r","y"," ","B">>

\* Every text of at most n tokens, and the example reply.
ReplyTexts(n) ==
  {Flatten(ts) : ts \in UNION {[1..k -> Tokens] : k \in 0..n}} \cup {ExampleReply}

\* What the backend does when called: returns a completion with a text,
\* raises, or returns a response without choices[0].text.
RepliesUpTo(n) ==
  {[kind |-> "text", text |-> t] : t \in ReplyTexts(n)}
    \cup {[kind |-> "raise", text |-> <<>>], [kind |-> "malformed", text |-> <<>>]}

Replies == RepliesUpTo(MaxTok)

\* The LLMConfig defaults of src/src/config/settings.py.
DefaultConfig == [max_tokens |-> 512, temperature |-> 7]

\* LLMConfig values: max_tokens, and temperature in tenths.
Configs == {[max_tokens |-> 512, temperature |-> 7], [max_tokens |-> 64, temperature |-> 0]}

\* ------------------------------------------------------------------ summarizer operations

NoCall == [max_tokens |-> -1, prompt |-> <<>>, stop |-> <<>>, temperature |-> -1]

\* summarize_all with max_tokens passed as configured, not scaled by the count.
SummarizeAllOpUnscaled(mdl, prs, reply, config) ==
  IF mdl = "None"
  THEN [call |-> NoCall, loadError |-> FALSE, ncalls |-> 0, nloads |-> 0, raised |-> TRUE, value |-> <<>>]
  ELSE [call |-> [max_tokens |-> config.max_tokens,
                  prompt |-> FormatAllPrsPrompt(prs),
                  stop |-> <<Separator>>,
                  temperature |-> config.temperature],
        loadError |-> FALSE,
        ncalls |-> 1,
        nloads |-> 0,
        raised |-> FALSE,
        value |-> IF reply.kind = "text" THEN ParseSummaries(reply.text, Len(prs))
                  ELSE [i \in 1..Len(prs) |-> ErrorGeneratingSummary]]

\* LLMSummarizer.summarize_all: what it returns or raises, the backend calls
\* it makes and the arguments of the call.
SummarizeAllOp(mdl, prs, reply, config) ==
  IF mdl = "None"
  THEN [call |-> NoCall, loadError |-> FALSE, ncalls |-> 0, nloads |-> 0, raised |-> TRUE, value |-> <<>>]
  ELSE [call |-> [max_tokens |-> config.max_tokens * Len(prs),
                  prompt |-> FormatAllPrsPrompt(prs),
                  stop |-> <<Separator>>,
                  temperature |-> config.temperature],
        loadError |-> FALSE,
        ncalls |-> 1,
        nloads |-> 0,
        raised |-> FALSE,
        value |-> IF reply.kind = "text" THEN ParseSummaries(reply.text, Len(prs))
                  ELSE [i \in 1..Len(prs) |-> ErrorGeneratingSummary]]

\* summarize with its except clause re-raising instead of returning the sentinel.
SummarizeOpReraising(mdl, pr, reply, config) ==
  [call |-> NoCall,
   loadError |-> FALSE,
   ncalls |-> IF mdl = "None" THEN 0 ELSE 1,
   nloads |-> 0,
   raised |-> mdl = "None" \/ reply.kind # "text",
   value |-> IF mdl # "None" /\ reply.kind = "text" THEN Strip(reply.text) ELSE <<>>]

\* LLMSummarizer.summarize
SummarizeOp(mdl, pr, reply, config) ==
  IF mdl = "None"
  THEN [call |-> NoCall, loadError |-> FALSE, ncalls |-> 0, nloads |-> 0, raised |-> TRUE, value |-> <<>>]
  ELSE [call |-> [max_tokens |-> config.max_tokens,
                  prompt |-> FormatPrPrompt(pr),
                  stop |-> <<Separator>>,
                  temperature |-> config.temperature],
        loadError |-> FALSE,
        ncalls |-> 1,
        nloads |-> 0,
        raised |-> FALSE,
        value |-> IF reply.kind = "text" THEN Strip(reply.text) ELSE ErrorGeneratingSummary]

\* summarize_pr with Llama(...) built before the try: a failed load is raised.
SummarizePrOpLoadOutsideTry(loadOk, pr, reply, config) ==
  IF ~loadOk
  THEN [call |-> NoCall, loadError |-> TRUE, ncalls |-> 0, nloads |-> 1,
        raised |-> TRUE, value |-> <<>>]
  ELSE [call |-> [max_tokens |-> config.max_tokens,
                  prompt |-> CreateSummarizationPrompt(pr),
                  stop |-> <<<<"<","/","s",">">>, <<"#","#","#">>>>,
                  temperature |-> config.temperature],
        loadError |-> FALSE,
        ncalls |-> 1,
        nloads |-> 1,
        raised |-> FALSE,
        value |-> IF reply.kind = "text" THEN Strip(reply.text) ELSE ErrorGeneratingSummary]

\* summarize_pr (llm_summarizer.py): Llama(...) is built inside the try, on every call.
SummarizePrOp(loadOk, pr, reply, config) ==
  IF ~loadOk
  THEN [call |-> NoCall, loadError |-> TRUE, ncalls |-> 0, nloads |-> 1,
        raised |-> FALSE, value |-> ErrorGeneratingSummary]
  ELSE [call |-> [max_tokens |-> config.max_tokens,
                  prompt |-> CreateSummarizationPrompt(pr),
                  stop |-> <<<<"<","/","s",">">>, <<"#","#","#">>>>,
                  temperature |-> config.temperature],
        loadError |-> FALSE,
        ncalls |-> 1,
        nloads |-> 1,
        raised |-> FALSE,
        value |-> IF reply.kind = "text" THEN Strip(reply.text) ELSE ErrorGeneratingSummary]

\* ------------------------------------------------------------------ GitHub clients

\* The statuses a mocked transport answers with.
Statuses == {200, 204, 304, 404, 500}

\* Repository identifiers typed at the prompt: owner/name, and malformed ones.
Repos ==
  {<<"acme", "/", "widgets">>, <<"acme">>, <<"acme", "/", "widgets", "/", "x">>,
   <<"/", "widgets">>, <<"acme", "/">>}

\* What response.json() of a non-list body gives.
ErrorObject == [message |-> PyStr(<<"Not Found">>)]

\* The bodies of a listing response: not JSON, a JSON object, or a JSON list
\* of 0..MaxPRs pull request objects.
Bodies ==
  {[kind |-> "invalid", prs |-> <<>>], [kind |-> "object", prs |-> <<>>]}
    \cup {[kind |-> "list", prs |-> [i \in 1..k |-> RawPRAt(i)]] : k \in 0..MaxPRs}

\* The answers of a pull request's comments_url: no comment, one comment, or a failure.
CommentReplies ==
  {[json |-> <<>>, status |-> 200],
   [json |-> <<[body |-> PyStr(<<"L","G","T","M">>)]>>, status |-> 200],
   [json |-> <<>>, status |-> 404]}

\* The answer of an endpoint nothing asks.
NoPull == [json |-> ErrorObject, status |-> 404]

\* A mocked transport: the listing's status and body, the answer of each
\* listed pull request's comments_url, the pages of the search endpoint and
\* the answer of the single pull request endpoint.
Nets ==
  UNION {{[body |-> b, comments |-> c, pages |-> <<>>, pull |-> NoPull, status |-> st] :
            c \in [1..Len(b.prs) -> CommentReplies]} : st \in Statuses, b \in Bodies}

\* requests.Response.raise_for_status(): raises for 4xx and 5xx only.
RaiseForStatus(status) == status >= 400 /\ status < 600

\* get_recent_prs of src/github_client.py leaving out every pull request whose
\* comments request failed.
RootGetRecentPrsSkipping(rp, nt) ==
  LET listing == [url |-> <<"https://api.github.com/repos/">> \o rp \o <<"/pulls">>,
                  what |-> "listing"]
      prs == nt.body.prs
      kept == SelectSeq([i \in 1..Len(prs) |-> i], LAMBDA i : nt.comments[i].status = 200)
  IN  IF nt.status # 200
      THEN [raised |-> FALSE, requests |-> <<listing>>, value |-> <<>>]
      ELSE IF nt.body.kind # "list"
      THEN [raised |-> TRUE, requests |-> <<listing>>, value |-> <<>>]
      ELSE [raised |-> FALSE,
            requests |-> <<listing>> \o
                         [i \in 1..Len(prs) |->
                            [url |-> prs[i].comments_url, what |-> "comments"]],
            value |-> [k \in 1..Len(kept) |->
                         RootRecord(prs[kept[k]],
                           [j \in 1..Len(nt.comments[kept[k]].json) |->
                              nt.comments[kept[k]].json[j].body])]]

\* GitHubClient.get_recent_prs of src/github_client.py: one listing request,
\* [] unless the status is 200, then one comments request per pull request.
RootGetRecentPrs(rp, nt) ==
  LET listing == [url |-> <<"https://api.github.com/repos/">> \o rp \o <<"/pulls">>,
                  what |-> "listing"]
      prs == nt.body.prs
  IN  IF nt.status # 200
      THEN [raised |-> FALSE, requests |-> <<listing>>, value |-> <<>>]
      ELSE IF nt.body.kind # "list"
      THEN [raised |-> TRUE, requests |-> <<listing>>, value |-> <<>>]
      ELSE [raised |-> FALSE,
            requests |-> <<listing>> \o
                         [i \in 1..Len(prs) |->
                            [url |-> prs[i].comments_url, what |-> "comments"]],
            value |-> [i \in 1..Len(prs) |->
                         RootRecord(prs[i],
                           IF nt.comments[i].status = 200
                           THEN [k \in 1..Len(nt.comments[i].json) |->
                                   nt.comments[i].json[k].body]
                           ELSE <<>>)]]

\* _make_request of src/src/core/github.py: whether it raises (raise_for_status,
\* or response.json() on a body that is not JSON).
CoreRequestFails(nt) == RaiseForStatus(nt.status) \/ nt.body.kind = "invalid"

\* GitHubClient.get_recent_prs of src/src/core/github.py: repo.split('/') is
\* unpacked outside the try; every exception after it gives [].
CoreGetRecentPrs(rp, nt) ==
  LET parts == SplitStr(rp, <<"/">>)
  IN  IF Len(parts) # 2
      THEN [raised |-> TRUE, requests |-> <<>>, value |-> <<>>]
      ELSE LET listing == [url |-> <<"https://api.github.com", "/", "repos/">> \o parts[1]
                                     \o <<"/">> \o parts[2] \o <<"/pulls">>,
                           what |-> "listing"]
           IN  IF CoreRequestFails(nt) \/ nt.body.kind # "list"
               THEN [raised |-> FALSE, requests |-> <<listing>>, value |-> <<>>]
               ELSE [raised |-> FALSE,
                     requests |-> <<listing>>,
                     value |-> [i \in 1..Len(nt.body.prs) |-> CoreRecord(nt.body.prs[i])]]

\* GitHubClient.get_recent_prs of src/src/pr_summarizer/core/github_client.py:
\* _make_request raises unless the status is 200; the parsed JSON is returned as it is.
PkgGetRecentPrs(rp, nt) ==
  LET parts == SplitStr(rp, <<"/">>)
  IN  IF Len(parts) # 2
      THEN [raised |-> TRUE, requests |-> <<>>, value |-> <<>>]
      ELSE LET listing == [url |-> <<"https://api.github.com", "/repos/">> \o parts[1]
                                     \o <<"/">> \o parts[2] \o <<"/pulls">>,
                           what |-> "listing"]
           IN  IF nt.status # 200 \/ nt.body.kind = "invalid"
               THEN [raised |-> FALSE, requests |-> <<listing>>, value |-> <<>>]
               ELSE [raised |-> FALSE,
                     requests |-> <<listing>>,
                     value |-> IF nt.body.kind = "list" THEN nt.body.prs ELSE ErrorObject]

\* for pr_data, summary in zip(prs, summaries), with the summaries taken from the end.
DisplayPairsReversed(ps, ss) ==
  [i \in 1..Min(Len(ps), Len(ss)) |-> <<ps[i], ss[Len(ss) + 1 - i]>>]

\* for pr_data, summary in zip(prs, summaries) (app.py line 80): the pairs displayed.
DisplayPairs(ps, ss) == [i \in 1..Min(Len(ps), Len(ss)) |-> <<ps[i], ss[i]>>]

\* ------------------------------------------------------------------ state

VARIABLES
  impl,         \* the code this process runs: "root" (main.py, github_client.py,
                \* llm_summarizer.py), "core" (src/core) or "pkg" (src/pr_summarizer)
  backend,      \* the mocked model backend's reply to a completion call
  cfg,          \* the LLMConfig
  constructed,  \* LLMSummarizer.__init__: "no", "yes" (returned) or "raised"
  model,        \* self.model: "None" or "Llama"
  loads,        \* Llama(...) constructions attempted so far
  calls,        \* completion calls made so far
  ops,          \* summarization operations performed so far
  loadFailed,   \* some Llama(...) construction has raised
  ret,          \* the last summarizer operation: its name, arguments and outcome
  repo,         \* the repository identifier given to the client
  net,          \* the mocked HTTP transport
  http,         \* the HTTP requests issued so far, in order
  got,          \* the last client operation: its name and outcome
  token,        \* GITHUB_TOKEN as the environment holds it: None when unset
  headers,      \* self.headers of the GitHub client, None before it is constructed
  logs,         \* the log records the client has written, in order
  pc,           \* where PRSummarizerApp is: "unit" when no driver runs
  prs,          \* run(): the listing's result
  summaries,    \* run(): summarize_all's result
  shown,        \* run(): the (pull request, summary) pairs displayed so far
  present,      \* os.path.exists of the model file's path
  written,      \* the chunks the model file holds
  dl,           \* the response the model download reads, once requested
  runs          \* the download runs finished so far: what each reported

sumVars == <<backend, cfg, constructed, model, loads, calls, ops, loadFailed, ret>>
cliVars == <<repo, net, http, got, token, headers, logs>>
appVars == <<pc, prs, summaries, shown>>
dlVars == <<present, written, dl, runs>>
vars == <<impl, sumVars, cliVars, appVars, dlVars>>

NoRet ==
  [args |-> <<>>, call |-> NoCall, failedBefore |-> FALSE, loadError |-> FALSE,
   ncalls |-> 0, nloads |-> 0, op |-> "none", opsBefore |-> 0, raised |-> FALSE,
   value |-> <<>>]

NoGot == [op |-> "none", raised |-> FALSE, requests |-> <<>>, value |-> <<>>]

NoNet ==
  [body |-> [kind |-> "list", prs |-> <<>>], comments |-> <<>>, pages |-> <<>>,
   pull |-> NoPull, status |-> 200]

\* A summarizer not yet constructed.
SumInit ==
  /\ constructed = "no"
  /\ model = "None"
  /\ loads = 0
  /\ calls = 0
  /\ ops = 0
  /\ loadFailed = FALSE
  /\ ret = NoRet

\* The access token of the sample runs.
Secret == <<"g", "h", "p", "_", "s", "3", "c", "r", "3", "t">>

\* GitHubClient.__init__ (the same in the three clients): self.headers.
ClientHeaders(tok) ==
  [Accept |-> <<"application/vnd.github.v3+json">>,
   Authorization |-> <<"token ">> \o tok]

\* The one record GitHubClient.__init__ logs.
ClientInitLog == <<<<"GitHub client initialized">>>>

\* No client in use.
CliIdle ==
  /\ repo = <<"acme", "/", "widgets">>
  /\ net = NoNet
  /\ http = <<>>
  /\ got = NoGot
  /\ token = PyStr(Secret)
  /\ headers = PyNone
  /\ logs = <<>>

\* No download requested.
NoDl == [failAt |-> -1, status |-> 0, total |-> 0]

\* No model file, no download run so far.
DlIdle == present = FALSE /\ written = 0 /\ dl = NoDl /\ runs = <<>>

\* No driver running.
AppIdle == pc = "unit" /\ prs = <<>> /\ summaries = <<>> /\ shown = <<>>

\* The record of an operation: its outcome r with its name and arguments.
Returned(name, args, r) ==
  [args |-> args, call |-> r.call, failedBefore |-> loadFailed, loadError |-> r.loadError,
   ncalls |-> r.ncalls, nloads |-> r.nloads, op |-> name, opsBefore |-> ops,
   raised |-> r.raised, value |-> r.value]

\* ------------------------------------------------------------------ summarizer actions

\* LLMSummarizer.__init__ with _load_model: the model is loaded here, and a
\* failed load is re-raised out of the constructor.
ConstructStep ==
  /\ impl = "core"
  /\ constructed = "no"
  /\ \E loadOk \in BOOLEAN :
       /\ model' = IF loadOk THEN "Llama" ELSE "None"
       /\ constructed' = IF loadOk THEN "yes" ELSE "raised"
       /\ loadFailed' = (loadFailed \/ ~loadOk)
       /\ ret' = Returned("__init__", <<>>,
                          [call |-> NoCall, loadError |-> ~loadOk, ncalls |-> 0,
                           nloads |-> 1, raised |-> ~loadOk, value |-> <<>>])
  /\ loads' = loads + 1
  /\ UNCHANGED <<impl, backend, cfg, calls, ops>>

Construct == pc = "unit" /\ ConstructStep /\ UNCHANGED <<cliVars, dlVars, appVars>>

\* summarizer.summarize(pr_data), pr_data drawn from prSet.
SummarizeOf(prSet) ==
  /\ pc = "unit"
  /\ impl = "core"
  /\ constructed = "yes"
  /\ ops < MaxOps
  /\ \E pr \in prSet :
       LET r == SummarizeOp(model, pr, backend, cfg)
       IN  /\ ret' = Returned("summarize", <<pr>>, r)
           /\ calls' = calls + r.ncalls
  /\ ops' = ops + 1
  /\ UNCHANGED <<impl, backend, cfg, constructed, model, loads, loadFailed, cliVars, dlVars, appVars>>

\* summarizer.summarize_all(prs), prs drawn from listSet.
SummarizeAllOf(listSet) ==
  /\ pc = "unit"
  /\ impl = "core"
  /\ constructed = "yes"
  /\ ops < MaxOps
  /\ \E ps \in listSet :
       LET r == SummarizeAllOp(model, ps, backend, cfg)
       IN  /\ ret' = Returned("summarize_all", ps, r)
           /\ calls' = calls + r.ncalls
  /\ ops' = ops + 1
  /\ UNCHANGED <<impl, backend, cfg, constructed, model, loads, loadFailed, cliVars, dlVars, appVars>>

\* summarize_pr(pr_data, config, model_path), pr_data drawn from prSet.
SummarizePrOf(prSet) ==
  /\ pc = "unit"
  /\ impl = "root"
  /\ ops < MaxOps
  /\ \E pr \in prSet, loadOk \in BOOLEAN :
       LET r == SummarizePrOp(loadOk, pr, backend, cfg)
       IN  /\ ret' = Returned("summarize_pr", <<pr>>, r)
           /\ calls' = calls + r.ncalls
           /\ loads' = loads + r.nloads
           /\ loadFailed' = (loadFailed \/ ~loadOk)
  /\ ops' = ops + 1
  /\ UNCHANGED <<impl, backend, cfg, constructed, model, cliVars, dlVars, appVars>>

Summarize == SummarizeOf({PRAt(3), PRAt(1)})

SummarizeAll == SummarizeAllOf(PRLists)

SummarizePr == SummarizePrOf({PRAt(3), PRAt(1)})

\* One process using the summarizer: the backend's reply is fixed at the start.
Init ==
  /\ DlIdle
  /\ impl \in {"core", "root"}
  /\ backend \in Replies
  /\ cfg \in Configs
  /\ SumInit
  /\ CliIdle
  /\ AppIdle

Next == Construct \/ Summarize \/ SummarizeAll \/ SummarizePr

Spec == Init /\ [][Next]_vars

\* ------------------------------------------------------------------ prompt inputs

\* What a pull request dict may hold under 'title' or 'body': nothing (the
\* key is absent), None, an empty string, or a text.
FieldShapes == {"absent", "none", "empty", "text"}

\* The value a present key holds, by its shape.
FieldValue(shape, txt) ==
  IF shape = "none" THEN PyNone
  ELSE IF shape = "empty" THEN PyStr(<<>>)
  ELSE PyStr(txt)

\* A pull request dict whose title and body have the given shapes.
PRShape(t, b) ==
  LET c == PyStr(<<"2","0","2","4">>)
      r == PyStr(<<"https://github.com/acme/widgets">>)
      s == PyStr(<<"o","p","e","n">>)
      tv == FieldValue(t, <<"T">>)
      bv == FieldValue(b, <<"B">>)
  IN  IF t = "absent" /\ b = "absent"
      THEN [created_at |-> c, repository_url |-> r, state |-> s]
      ELSE IF t = "absent"
      THEN [body |-> bv, created_at |-> c, repository_url |-> r, state |-> s]
      ELSE IF b = "absent"
      THEN [created_at |-> c, repository_url |-> r, state |-> s, title |-> tv]
      ELSE [body |-> bv, created_at |-> c, repository_url |-> r, state |-> s, title |-> tv]

PRShapes == {PRShape(t, b) : t \in FieldShapes, b \in FieldShapes}

ShapeLists == UNION {[1..k -> PRShapes] : k \in 0..MaxPromptPRs}

\* The operations applied to the list drawn at the start: summarize and
\* summarize_pr to its first pull request, summarize_all to the whole list.
SummarizeShape == prs # <<>> /\ SummarizeOf({prs[1]})

SummarizeAllShapes == SummarizeAllOf({prs})

SummarizePrShape == prs # <<>> /\ SummarizePrOf({prs[1]})

\* One process summarizing a list of pull requests of any shapes, against a
\* backend that answers "a" or raises.
InitPrompt ==
  /\ DlIdle
  /\ impl \in {"core", "root"}
  /\ backend \in {[kind |-> "text", text |-> <<"a">>], [kind |-> "raise", text |-> <<>>]}
  /\ cfg = DefaultConfig
  /\ SumInit
  /\ CliIdle
  /\ pc = "unit"
  /\ prs \in ShapeLists
  /\ summaries = <<>>
  /\ shown = <<>>

NextPrompt == Construct \/ SummarizeShape \/ SummarizeAllShapes \/ SummarizePrShape

SpecPrompt == InitPrompt /\ [][NextPrompt]_vars

\* ------------------------------------------------------------------ client logs
\* A log record is the text of its message.

\* The params dict of the listing request, as an f-string renders it.
ListingParams ==
  <<"{'state': 'all', 'sort': 'created', 'direction': 'desc', 'per_page': 10}">>

\* response.text of a listing response: the raw text of its body (a pull
\* request object is abridged to its number and title).
BodyText(b) ==
  IF b.kind = "invalid" THEN <<"<html>Bad Gateway</html>">>
  ELSE IF b.kind = "object" THEN <<"{\"message\": \"Not Found\"}">>
  ELSE <<"[">>
         \o Flatten([i \in 1..Len(b.prs) |->
                      <<"{\"number\": ">> \o IntToStr(b.prs[i].number)
                        \o <<", \"title\": \"">> \o b.prs[i].title.str \o <<"\"}">>])
         \o <<"]">>

\* response.text of a comments response.
CommentsText(r) ==
  IF r.status # 200 THEN <<"{\"message\": \"Not Found\"}">>
  ELSE <<"[">>
         \o Flatten([k \in 1..Len(r.json) |->
                      <<"{\"body\": \"">> \o r.json[k].body.str \o <<"\"}">>])
         \o <<"]">>

\* len(x) of what response.json() gives for a body that is JSON.
JsonLen(b) == IF b.kind = "object" THEN 1 ELSE Len(b.prs)

\* _log_api_call that also logs the request headers.
ApiCallLogWithHeaders(url, params) ==
  <<<<"Making GET request to: ">> \o url>>
    \o (IF params # <<>> THEN <<<<"Request parameters: ">> \o params>> ELSE <<>>)
    \o <<<<"Request headers: ">> \o headers.Authorization>>
    \o <<<<"Starting API call...">>>>

\* GitHubClient._log_api_call (src/github_client.py)
ApiCallLog(url, params) ==
  <<<<"Making GET request to: ">> \o url>>
    \o (IF params # <<>> THEN <<<<"Request parameters: ">> \o params>> ELSE <<>>)
    \o <<<<"Starting API call...">>>>

\* GitHubClient._log_api_response (src/github_client.py); the duration is a
\* number of seconds with two decimals.
ApiResponseLog(status, text) ==
  <<<<"API call completed in ", "0", ".", "1", "2", " seconds">>,
    <<"Response status: ">> \o IntToStr(status)>>
    \o (IF status # 200 THEN <<<<"Error response: ">> \o text>> ELSE <<>>)

\* The records get_recent_prs of src/github_client.py logs.
RootGetRecentPrsLogs(rp, nt) ==
  LET url == <<"https://api.github.com/repos/">> \o rp \o <<"/pulls">>
      listed == nt.body.prs
      head == <<<<"Fetching ", "1", "0", " most recent PRs from ">> \o rp>>
                \o ApiCallLog(url, ListingParams)
                \o ApiResponseLog(nt.status, BodyText(nt.body))
      found == <<<<"Found ">> \o IntToStr(JsonLen(nt.body)) \o <<" PRs">>>>
      one(i) == <<<<"Fetching comments for PR #">> \o IntToStr(listed[i].number)>>
                  \o ApiCallLog(listed[i].comments_url, <<>>)
                  \o ApiResponseLog(nt.comments[i].status, CommentsText(nt.comments[i]))
  IN  IF nt.status # 200
      THEN head \o <<<<"Failed to fetch PRs: ">> \o IntToStr(nt.status)>>
      ELSE IF nt.body.kind = "invalid" THEN head
      ELSE IF nt.body.kind = "object" THEN head \o found
      ELSE head \o found \o Flatten([i \in 1..Len(listed) |-> one(i)])
             \o <<<<"Successfully processed ">> \o IntToStr(Len(listed)) \o <<" PRs">>>>

\* str(e) of what _make_request of src/src/core/github.py raises.
CoreErrorText(url, nt) ==
  IF RaiseForStatus(nt.status)
  THEN IntToStr(nt.status)
         \o (IF nt.status < 500 THEN <<" Client Error: ">> ELSE <<" Server Error: ">>)
         \o <<"for url: ">> \o url
         \o <<"?state=all&sort=created&direction=desc&since=2024">>
  ELSE <<"Expecting value: line 1 column 1 (char 0)">>

\* The records get_recent_prs of src/src/core/github.py logs.
CoreGetRecentPrsLogs(rp, nt) ==
  LET parts == SplitStr(rp, <<"/">>)
      url == <<"https://api.github.com", "/", "repos/">> \o parts[1]
               \o <<"/">> \o parts[2] \o <<"/pulls">>
      head == <<<<"Fetching PRs from ">> \o rp>>
      found == <<<<"Found ">> \o IntToStr(JsonLen(nt.body)) \o <<" PRs">>>>
  IN  IF Len(parts) # 2 THEN <<>>
      ELSE IF CoreRequestFails(nt)
      THEN head \o <<<<"GitHub API request failed: ">> \o CoreErrorText(url, nt),
                      <<"Failed to fetch PRs: ">> \o CoreErrorText(url, nt)>>
      ELSE IF nt.body.kind = "object"
      THEN head \o found \o <<<<"Failed to fetch PRs: ", "string indices must be integers">>>>
      ELSE head \o found

\* The records get_recent_prs of src/src/pr_summarizer/core/github_client.py
\* logs, _make_request included.
PkgGetRecentPrsLogs(rp, nt) ==
  LET parts == SplitStr(rp, <<"/">>)
      url == <<"https://api.github.com", "/repos/">> \o parts[1]
               \o <<"/">> \o parts[2] \o <<"/pulls">>
      head == <<<<"Fetching ", "1", "0", " most recent PRs from ">> \o rp,
                <<"Making GET request to: ">> \o url,
                <<"Request parameters: ">> \o ListingParams,
                <<"Starting API call...">>,
                <<"API call completed in ", "0", ".", "1", "2", " seconds">>,
                <<"Response status: ">> \o IntToStr(nt.status)>>
  IN  IF Len(parts) # 2 THEN <<>>
      ELSE IF nt.status # 200
      THEN head \o <<<<"Error response: ">> \o BodyText(nt.body),
                      <<"Failed to fetch PRs: ", "Failed to fetch data: ">>
                        \o IntToStr(nt.status)>>
      ELSE IF nt.body.kind = "invalid"
      THEN head \o <<<<"Failed to fetch PRs: ", "Expecting value: line 1 column 1 (char 0)">>>>
      ELSE head \o <<<<"Found ">> \o IntToStr(JsonLen(nt.body)) \o <<" PRs">>>>

\* The records get_recent_prs logs, by the client of the code in use.
GetRecentPrsLogs(im, rp, nt) ==
  IF im = "root" THEN RootGetRecentPrsLogs(rp, nt)
  ELSE IF im = "core" THEN CoreGetRecentPrsLogs(rp, nt)
  ELSE PkgGetRecentPrsLogs(rp, nt)

\* ------------------------------------------------------------------ client actions

\* github_client.get_recent_prs(repo), by the client of the code in use.
GetRecentPrsOp(im, rp, nt) ==
  IF im = "root" THEN RootGetRecentPrs(rp, nt)
  ELSE IF im = "core" THEN CoreGetRecentPrs(rp, nt)
  ELSE PkgGetRecentPrs(rp, nt)

GetRecentPrsStep(im) ==
  /\ impl = im
  /\ LET r == GetRecentPrsOp(im, repo, net)
     IN  /\ got' = [op |-> "get_recent_prs", raised |-> r.raised,
                    requests |-> r.requests, value |-> r.value]
         /\ http' = http \o r.requests
  /\ logs' = logs \o GetRecentPrsLogs(im, repo, net)
  /\ UNCHANGED <<impl, repo, net, token, dlVars, headers, sumVars>>

RootGetRecentPrsCall ==
  pc = "unit" /\ got.op = "none" /\ GetRecentPrsStep("root") /\ UNCHANGED appVars

CoreGetRecentPrsCall ==
  pc = "unit" /\ got.op = "none" /\ GetRecentPrsStep("core") /\ UNCHANGED appVars

PkgGetRecentPrsCall ==
  pc = "unit" /\ got.op = "none" /\ GetRecentPrsStep("pkg") /\ UNCHANGED appVars

\* One client of one code base, one repository identifier, one mocked transport.
InitClient ==
  /\ DlIdle
  /\ impl \in {"root", "core", "pkg"}
  /\ repo \in Repos
  /\ net \in Nets
  /\ http = <<>>
  /\ got = NoGot
  /\ token = PyStr(Secret)
  /\ headers = ClientHeaders(Secret)
  /\ logs = ClientInitLog
  /\ backend = [kind |-> "text", text |-> <<>>]
  /\ cfg = DefaultConfig
  /\ SumInit
  /\ AppIdle

NextClient == RootGetRecentPrsCall \/ CoreGetRecentPrsCall \/ PkgGetRecentPrsCall

SpecClient == InitClient /\ [][NextClient]_vars

\* ------------------------------------------------------------------ single pull request and search

\* GitHubClient.get_pr_data of src/github_client.py: {} unless the status is
\* 200, then the comments request; the record has no 'number'.
RootGetPrData(rp, number, nt) ==
  LET request == [url |-> <<"https://api.github.com/repos/">> \o rp \o <<"/pulls/">>
                            \o IntToStr(number),
                  what |-> "pull"]
      pr == nt.pull.json
  IN  IF nt.pull.status # 200
      THEN [raised |-> FALSE, requests |-> <<request>>, value |-> <<>>]
      ELSE IF "comments_url" \notin DOMAIN pr
      THEN [raised |-> TRUE, requests |-> <<request>>, value |-> <<>>]
      ELSE [raised |-> FALSE,
            requests |-> <<request, [url |-> pr.comments_url, what |-> "comments"]>>,
            value |-> [body |-> pr.body,
                       comments |-> IF nt.comments[1].status = 200
                                    THEN [k \in 1..Len(nt.comments[1].json) |->
                                            nt.comments[1].json[k].body]
                                    ELSE <<>>,
                       created_at |-> pr.created_at,
                       repository_url |-> pr.html_url,
                       state |-> pr.state,
                       title |-> pr.title]]

\* response.text of the single pull request endpoint.
PullText(r) ==
  IF "number" \in DOMAIN r.json
  THEN <<"{\"number\": ">> \o IntToStr(r.json.number) \o <<"}">>
  ELSE <<"{\"message\": \"Not Found\"}">>

\* The records get_pr_data logs.
RootGetPrDataLogs(rp, number, nt) ==
  LET url == <<"https://api.github.com/repos/">> \o rp \o <<"/pulls/">> \o IntToStr(number)
      head == <<<<"Fetching PR #">> \o IntToStr(number) \o <<" from ">> \o rp>>
                \o ApiCallLog(url, <<>>)
                \o ApiResponseLog(nt.pull.status, PullText(nt.pull))
      fetched == IF nt.comments[1].status = 200 THEN Len(nt.comments[1].json) ELSE 0
  IN  IF nt.pull.status # 200
      THEN head \o <<<<"Failed to fetch PR data: ">> \o IntToStr(nt.pull.status)>>
      ELSE IF "comments_url" \notin DOMAIN nt.pull.json THEN head
      ELSE head \o ApiCallLog(nt.pull.json.comments_url, <<>>)
             \o ApiResponseLog(nt.comments[1].status, CommentsText(nt.comments[1]))
             \o <<<<"Successfully fetched PR #">> \o IntToStr(number) \o <<" with ">>
                    \o IntToStr(fetched) \o <<" comments">>>>

\* get_prs_for_user of src/github_client.py: a module-level function whose
\* loop calls self._log_api_call; self is not a name of its scope, so the
\* first pass raises NameError before requests.get is reached.
GetPrsForUser(username, nt) ==
  [raised |-> TRUE, requests |-> <<>>, value |-> <<>>]

\* The records get_prs_for_user logs before it raises.
GetPrsForUserLogs(username, nt) ==
  <<<<"Fetching PRs for user ">> \o username \o <<" in the last ", "7", " days">>,
    <<"Fetching page ", "1", " of PRs">>>>

\* github_client.get_pr_data(repo, pr_number)
GetPrDataCall ==
  /\ pc = "unit"
  /\ impl = "root"
  /\ got.op = "none"
  /\ \E number \in {10, 12} :
       LET r == RootGetPrData(repo, number, net)
       IN  /\ got' = [op |-> "get_pr_data", raised |-> r.raised,
                      requests |-> r.requests, value |-> r.value]
           /\ http' = http \o r.requests
           /\ logs' = logs \o RootGetPrDataLogs(repo, number, net)
  /\ UNCHANGED <<impl, repo, net, token, dlVars, headers, sumVars, appVars>>

\* get_prs_for_user(username, token, days)
GetPrsForUserCall ==
  /\ pc = "unit"
  /\ impl = "root"
  /\ got.op = "none"
  /\ \E username \in {<<"d", "e", "v">>, <<"o", "p", "s">>} :
       LET r == GetPrsForUser(username, net)
       IN  /\ got' = [op |-> "get_prs_for_user", raised |-> r.raised,
                      requests |-> r.requests, value |-> r.value]
           /\ http' = http \o r.requests
           /\ logs' = logs \o GetPrsForUserLogs(username, net)
  /\ UNCHANGED <<impl, repo, net, token, dlVars, headers, sumVars, appVars>>

\* The answers of the single pull request endpoint.
PullReplies ==
  {[json |-> j, status |-> st] :
     j \in {RawPRAt(1), RawPRAt(3), ErrorObject}, st \in {200, 404, 500}}

\* The first pages of the search endpoint, each with items or refused with a
\* 500; every later page is answered with no items.
PageLists ==
  UNION {[1..k -> {[json |-> [items |-> <<RawPRAt(1)>>], status |-> 200],
                   [json |-> [items |-> <<RawPRAt(2), RawPRAt(3)>>], status |-> 200],
                   [json |-> ErrorObject, status |-> 500]}] :
           k \in 0..MaxPages}

ApiNets ==
  {[body |-> [kind |-> "list", prs |-> <<>>], comments |-> <<c>>, pages |-> pg,
    pull |-> pl, status |-> 200] :
     c \in CommentReplies, pg \in PageLists, pl \in PullReplies}

\* One client of src/github_client.py asked for one pull request, or for a
\* user's pull requests.
InitApi ==
  /\ DlIdle
  /\ impl = "root"
  /\ repo \in {<<"acme", "/", "widgets">>, <<"acme">>}
  /\ net \in ApiNets
  /\ http = <<>>
  /\ got = NoGot
  /\ token = PyStr(Secret)
  /\ headers = ClientHeaders(Secret)
  /\ logs = ClientInitLog
  /\ backend = [kind |-> "text", text |-> <<>>]
  /\ cfg = DefaultConfig
  /\ SumInit
  /\ AppIdle

NextApi == GetPrDataCall \/ GetPrsForUserCall

SpecApi == InitApi /\ [][NextApi]_vars

\* ------------------------------------------------------------------ the batched driver

\* PRSummarizerApp.__init__: the client and the summarizer are built; a failed
\* model load raises out of it and main() re-raises.
AppConstruct ==
  /\ pc = "start"
  /\ headers' = ClientHeaders(token.str)
  /\ logs' = logs \o ClientInitLog
  /\ ConstructStep
  /\ pc' = IF constructed' = "yes" THEN "constructed" ELSE "crashed"
  /\ UNCHANGED <<repo, net, http, got, token, dlVars, prs, summaries, shown>>

\* run(), lines 53-59: the repository is read and the listing fetched; an
\* exception goes to run's except clause, an empty listing ends the run.
RunFetch ==
  /\ pc = "constructed"
  /\ GetRecentPrsStep("core")
  /\ prs' = got'.value
  /\ pc' = IF got'.raised THEN "error" ELSE IF got'.value = <<>> THEN "done" ELSE "fetched"
  /\ UNCHANGED <<summaries, shown>>

\* run(), lines 73-77: the single summarize_all call.
RunSummarize ==
  /\ pc = "fetched"
  /\ LET r == SummarizeAllOp(model, prs, backend, cfg)
     IN  /\ ret' = Returned("summarize_all", prs, r)
         /\ calls' = calls + r.ncalls
         /\ summaries' = r.value
         /\ pc' = IF r.raised THEN "error" ELSE "display"
  /\ ops' = ops + 1
  /\ UNCHANGED <<impl, backend, cfg, constructed, model, loads, loadFailed, cliVars, dlVars, prs, shown>>

\* run(), lines 80-82: one iteration of the display loop.
RunDisplay ==
  /\ pc = "display"
  /\ Len(shown) < Len(DisplayPairs(prs, summaries))
  /\ shown' = Append(shown, DisplayPairs(prs, summaries)[Len(shown) + 1])
  /\ UNCHANGED <<impl, sumVars, cliVars, dlVars, pc, prs, summaries>>

\* run(), line 84: the loop is over.
RunFinish ==
  /\ pc = "display"
  /\ Len(shown) = Len(DisplayPairs(prs, summaries))
  /\ pc' = "done"
  /\ UNCHANGED <<impl, sumVars, cliVars, dlVars, prs, summaries, shown>>

\* The transports of the driver's runs: the core client fetches no comments.
AppNets ==
  {[body |-> b, comments |-> [i \in 1..Len(b.prs) |-> [json |-> <<>>, status |-> 200]],
    pages |-> <<>>, pull |-> NoPull, status |-> st] :
     st \in {200, 404}, b \in Bodies \ {[kind |-> "object", prs |-> <<>>]}}

\* One run of python -m src: the entry point of src/src/__main__.py.
InitApp ==
  /\ DlIdle
  /\ impl = "core"
  /\ backend \in RepliesUpTo(MaxTok - 1)
  /\ cfg = DefaultConfig
  /\ SumInit
  /\ repo \in {<<"acme", "/", "widgets">>, <<"acme">>}
  /\ net \in AppNets
  /\ http = <<>>
  /\ got = NoGot
  /\ token = PyStr(Secret)
  /\ headers = PyNone
  /\ logs = <<>>
  /\ pc = "start"
  /\ prs = <<>>
  /\ summaries = <<>>
  /\ shown = <<>>

\* main() of src/src/__main__.py, lines 48-50: an exception out of
\* PRSummarizerApp(config) is logged and raised again.
MainExcept ==
  /\ pc = "crashed"
  /\ pc' = "aborted"
  /\ UNCHANGED <<impl, sumVars, cliVars, dlVars, prs, summaries, shown>>

\* app.run() has returned, its except clause having caught what was raised
\* in it: main() returns.
MainReturn ==
  /\ pc \in {"done", "error"}
  /\ pc' = "exited"
  /\ UNCHANGED <<impl, sumVars, cliVars, dlVars, prs, summaries, shown>>

NextApp ==
  \/ AppConstruct
  \/ RunFetch
  \/ RunSummarize
  \/ RunDisplay
  \/ RunFinish
  \/ MainExcept
  \/ MainReturn

SpecApp == InitApp /\ [][NextApp]_vars

\* ------------------------------------------------------------------ the per-PR drivers
\* main() of src/main.py ("root") and of src/src/pr_summarizer/main.py ("pkg").

\* The LLMConfig defaults of src/config.py.
RootConfig == [max_tokens |-> 500, temperature |-> 7]

\* The LLMConfig defaults of src/src/pr_summarizer/config/config.py.
PkgConfig == [max_tokens |-> 2048, temperature |-> 7]

\* os.getenv("GITHUB_TOKEN", ""): the empty string when the variable is unset.
GetEnvToken == IF token = PyNone THEN <<>> ELSE token.str

\* main(), up to the try: the configuration is built and the repository read.
\* AppConfig() of src/config.py validates nothing (validate_config is never
\* called); AppConfig.from_env raises ValueError for an unset or empty token.
MainConfig ==
  /\ pc = "main"
  /\ pc' = IF impl = "pkg" /\ GetEnvToken = <<>> THEN "aborted" ELSE "configured"
  /\ UNCHANGED <<impl, sumVars, cliVars, dlVars, prs, summaries, shown>>

\* GitHubClient(config.github_token)
MainClient ==
  /\ pc = "configured"
  /\ headers' = ClientHeaders(GetEnvToken)
  /\ logs' = logs \o ClientInitLog
  /\ pc' = "client"
  /\ UNCHANGED <<impl, sumVars, repo, net, http, got, token, dlVars, prs, summaries, shown>>

\* get_recent_prs(repo), the empty-listing return and the os.path.exists
\* check of the model file; an exception goes to main's except clause, which
\* logs it and lets main return.
MainFetch ==
  /\ pc = "client"
  /\ GetRecentPrsStep(impl)
  /\ prs' = got'.value
  /\ \E modelExists \in BOOLEAN :
       pc' = IF got'.raised THEN "error"
             ELSE IF got'.value = <<>> THEN "no_prs"
             ELSE IF ~modelExists THEN "no_model"
             ELSE "loop"
  /\ UNCHANGED <<summaries, shown>>

\* RootLoopStep fetching the pull request's comments in the pass that
\* summarizes it, instead of leaving every request to the listing.
RootLoopStepFetching ==
  /\ impl = "root"
  /\ pc = "loop"
  /\ Len(shown) < Len(prs)
  /\ \E loadOk \in BOOLEAN :
       LET pr == prs[Len(shown) + 1]
           r == SummarizePrOp(loadOk, pr, backend, cfg)
       IN  /\ ret' = Returned("summarize_pr", <<pr>>, r)
           /\ calls' = calls + r.ncalls
           /\ loads' = loads + r.nloads
           /\ loadFailed' = (loadFailed \/ ~loadOk)
           /\ shown' = IF r.raised THEN shown ELSE Append(shown, <<pr, r.value>>)
           /\ pc' = IF r.raised THEN "error" ELSE pc
           /\ http' = Append(http, [url |-> pr.repository_url, what |-> "comments"])
  /\ ops' = ops + 1
  /\ UNCHANGED <<impl, backend, cfg, constructed, model, repo, net, got, token, headers,
                 logs, dlVars, prs, summaries>>

\* One pass of the loop of src/main.py (lines 102-114): summarize_pr, then
\* display_pr_summary.
RootLoopStep ==
  /\ impl = "root"
  /\ pc = "loop"
  /\ Len(shown) < Len(prs)
  /\ \E loadOk \in BOOLEAN :
       LET pr == prs[Len(shown) + 1]
           r == SummarizePrOp(loadOk, pr, backend, cfg)
       IN  /\ ret' = Returned("summarize_pr", <<pr>>, r)
           /\ calls' = calls + r.ncalls
           /\ loads' = loads + r.nloads
           /\ loadFailed' = (loadFailed \/ ~loadOk)
           /\ shown' = IF r.raised THEN shown ELSE Append(shown, <<pr, r.value>>)
           /\ pc' = IF r.raised THEN "error" ELSE pc
  /\ ops' = ops + 1
  /\ UNCHANGED <<impl, backend, cfg, constructed, model, cliVars, dlVars, prs, summaries>>

\* The loop of src/main.py is over (line 116).
RootLoopEnd ==
  /\ impl = "root"
  /\ pc = "loop"
  /\ Len(shown) = Len(prs)
  /\ pc' = "done"
  /\ UNCHANGED <<impl, sumVars, cliVars, dlVars, prs, summaries, shown>>

\* PRSummarizer.summarize of pr_summarizer.models.summarizer: the model is
\* loaded on first use and at most once, a failed load fails every later
\* call, and every failure gives the failure string instead of raising.
PRSummarizerSummarize(mdl, failed, loadOk, pr, reply, config) ==
  IF failed \/ (mdl = "None" /\ ~loadOk)
  THEN [call |-> NoCall, loadError |-> TRUE, ncalls |-> 0,
        nloads |-> IF failed THEN 0 ELSE 1,
        raised |-> FALSE, value |-> ErrorGeneratingSummary]
  ELSE [call |-> [max_tokens |-> config.max_tokens,
                  prompt |-> FormatPrPrompt(pr),
                  stop |-> <<Separator>>,
                  temperature |-> config.temperature],
        loadError |-> FALSE,
        ncalls |-> 1,
        nloads |-> IF mdl = "None" THEN 1 ELSE 0,
        raised |-> FALSE,
        value |-> IF reply.kind = "text" THEN Strip(reply.text) ELSE ErrorGeneratingSummary]

\* One pass of the loop of src/src/pr_summarizer/main.py (lines 181-197):
\* summarizer.summarize, then all_summaries.append.
PkgLoopStep ==
  /\ impl = "pkg"
  /\ pc = "loop"
  /\ Len(summaries) < Len(prs)
  /\ \E loadOk \in BOOLEAN :
       LET pr == prs[Len(summaries) + 1]
           r == PRSummarizerSummarize(model, loadFailed, loadOk, pr, backend, cfg)
       IN  /\ ret' = Returned("summarize", <<pr>>, r)
           /\ calls' = calls + r.ncalls
           /\ loads' = loads + r.nloads
           /\ loadFailed' = (loadFailed \/ r.loadError)
           /\ model' = IF r.loadError THEN model ELSE "Llama"
           /\ summaries' = Append(summaries, <<pr, r.value>>)
  /\ ops' = ops + 1
  /\ UNCHANGED <<impl, backend, cfg, constructed, cliVars, dlVars, pc, prs, shown>>

\* display_all_summaries(all_summaries) (lines 199-201).
PkgDisplayAll ==
  /\ impl = "pkg"
  /\ pc = "loop"
  /\ Len(summaries) = Len(prs)
  /\ shown' = summaries
  /\ pc' = "done"
  /\ UNCHANGED <<impl, sumVars, cliVars, dlVars, prs, summaries>>

\* The transports of the per-PR runs: every comments request gets the same answer.
PerPrNets ==
  {[body |-> b, comments |-> [i \in 1..Len(b.prs) |-> c], pages |-> <<>>,
    pull |-> NoPull, status |-> st] :
     st \in {200, 404}, c \in CommentReplies, b \in Bodies \ {[kind |-> "object", prs |-> <<>>]}}

\* One run of a per-PR entry point: the environment holds a token, an empty
\* token or none.
InitPerPr ==
  /\ DlIdle
  /\ impl \in {"root", "pkg"}
  /\ backend \in {[kind |-> "text", text |-> <<" ", "a">>], [kind |-> "raise", text |-> <<>>]}
  /\ cfg = IF impl = "root" THEN RootConfig ELSE PkgConfig
  /\ SumInit
  /\ repo \in {<<"acme", "/", "widgets">>, <<"acme">>}
  /\ net \in PerPrNets
  /\ http = <<>>
  /\ got = NoGot
  /\ token \in {PyNone, PyStr(<<>>), PyStr(Secret)}
  /\ headers = PyNone
  /\ logs = <<>>
  /\ pc = "main"
  /\ prs = <<>>
  /\ summaries = <<>>
  /\ shown = <<>>

NextPerPr ==
  \/ MainConfig
  \/ MainClient
  \/ MainFetch
  \/ RootLoopStep
  \/ RootLoopEnd
  \/ PkgLoopStep
  \/ PkgDisplayAll

SpecPerPr == InitPerPr /\ [][NextPerPr]_vars

\* ------------------------------------------------------------------ the model download

\* The address the model file is downloaded from.
ModelUrl ==
  <<"https://huggingface.co/TheBloke/Mistral-7B-Instruct-v0.2-GGUF/resolve/main/",
    "mistral-7b-instruct-v0.2.Q4_K_M.gguf">>

\* The one request of a download.
DownloadRequest == [url |-> ModelUrl, what |-> "model"]

\* What requests.get(url, stream=True) meets. status 0: the request itself
\* raises. Otherwise the body comes in total chunks, and failAt is the number
\* of chunks iter_content yields before it raises, -1 when it yields them all.
Responses ==
  {NoDl, [failAt |-> -1, status |-> 404, total |-> 1]}
    \cup UNION {{[failAt |-> f, status |-> 200, total |-> n] : f \in -1..(n - 1)} :
                  n \in 0..MaxChunks}

\* What one finished run reported: how it ended and the value returned (as
\* Python prints it).
RunRecord(kind, value) == [kind |-> kind, value |-> value]

\* One pass of the writing loop: the next chunk is read and written.
WriteChunk(im) ==
  /\ impl = im
  /\ pc = "writing"
  /\ written < dl.total
  /\ written # dl.failAt
  /\ written' = written + 1
  /\ UNCHANGED <<impl, sumVars, cliVars, pc, prs, summaries, shown, present, dl, runs>>

\* ModelDownloader.download up to the opening of the file: True at once when
\* the file exists; a request that raises, or a 4xx/5xx status
\* (raise_for_status), is caught, there is no file to remove, False.
ModelDownloaderDownload ==
  /\ impl = "pkg"
  /\ pc = "shell"
  /\ Len(runs) < MaxRuns
  /\ IF present
     THEN /\ runs' = Append(runs, RunRecord("exists", "True"))
          /\ UNCHANGED <<http, present, written, dl, pc>>
     ELSE \E r \in Responses :
            /\ http' = Append(http, DownloadRequest)
            /\ dl' = r
            /\ IF r.status = 0 \/ r.status >= 400
               THEN /\ runs' = Append(runs, RunRecord("failed", "False"))
                    /\ UNCHANGED <<present, written, pc>>
               ELSE /\ present' = TRUE
                    /\ written' = 0
                    /\ pc' = "writing"
                    /\ UNCHANGED runs
  /\ UNCHANGED <<impl, sumVars, repo, net, got, token, headers, logs, prs, summaries, shown>>

\* ModelDownloader.download, the writing loop.
PkgWriteChunk == WriteChunk("pkg")

\* ModelDownloader.download with an except clause that returns False and
\* leaves the file where it is.
PkgDownloadRaisesKeepingFile ==
  /\ impl = "pkg"
  /\ pc = "writing"
  /\ written = dl.failAt
  /\ runs' = Append(runs, RunRecord("failed", "False"))
  /\ pc' = "shell"
  /\ UNCHANGED <<impl, sumVars, cliVars, prs, summaries, shown, present, written, dl>>

\* ModelDownloader.download, the except clause reached from the writing loop:
\* the file exists and is removed, False.
PkgDownloadRaises ==
  /\ impl = "pkg"
  /\ pc = "writing"
  /\ written = dl.failAt
  /\ present' = FALSE
  /\ written' = 0
  /\ runs' = Append(runs, RunRecord("failed", "False"))
  /\ pc' = "shell"
  /\ UNCHANGED <<impl, sumVars, cliVars, prs, summaries, shown, dl>>

\* ModelDownloader.download, the loop has written every chunk: True.
PkgDownloadReturns ==
  /\ impl = "pkg"
  /\ pc = "writing"
  /\ written = dl.total
  /\ runs' = Append(runs, RunRecord("downloaded", "True"))
  /\ pc' = "shell"
  /\ UNCHANGED <<impl, sumVars, cliVars, prs, summaries, shown, present, written, dl>>

\* main() of download_model.py with download_file up to the opening of the
\* file: "Model already exists" when the file exists; a request that raises
\* is caught and reported; the status is not looked at.
DownloadModelMain ==
  /\ impl = "root"
  /\ pc = "shell"
  /\ Len(runs) < MaxRuns
  /\ IF present
     THEN /\ runs' = Append(runs, RunRecord("exists", "None"))
          /\ UNCHANGED <<http, present, written, dl, pc>>
     ELSE \E r \in Responses :
            /\ http' = Append(http, DownloadRequest)
            /\ dl' = r
            /\ IF r.status = 0
               THEN /\ runs' = Append(runs, RunRecord("failed", "None"))
                    /\ UNCHANGED <<present, written, pc>>
               ELSE /\ present' = TRUE
                    /\ written' = 0
                    /\ pc' = "writing"
                    /\ UNCHANGED runs
  /\ UNCHANGED <<impl, sumVars, repo, net, got, token, headers, logs, prs, summaries, shown>>

\* download_file, the writing loop.
RootWriteChunk == WriteChunk("root")

\* download_file raises out of the writing loop: main() reports the error;
\* nothing removes the file.
RootDownloadRaises ==
  /\ impl = "root"
  /\ pc = "writing"
  /\ written = dl.failAt
  /\ runs' = Append(runs, RunRecord("failed", "None"))
  /\ pc' = "shell"
  /\ UNCHANGED <<impl, sumVars, cliVars, prs, summaries, shown, present, written, dl>>

\* download_file returns: main() reports the download as successful.
RootDownloadReturns ==
  /\ impl = "root"
  /\ pc = "writing"
  /\ written = dl.total
  /\ runs' = Append(runs, RunRecord("downloaded", "None"))
  /\ pc' = "shell"
  /\ UNCHANGED <<impl, sumVars, cliVars, prs, summaries, shown, present, written, dl>>

\* A machine without the model file, on which a download is run again and
\* again.
InitDownload ==
  /\ DlIdle
  /\ impl \in {"root", "pkg"}
  /\ CliIdle
  /\ backend = [kind |-> "text", text |-> <<>>]
  /\ cfg = DefaultConfig
  /\ SumInit
  /\ pc = "shell"
  /\ prs = <<>>
  /\ summaries = <<>>
  /\ shown = <<>>

NextDownload ==
  \/ ModelDownloaderDownload
  \/ PkgWriteChunk
  \/ PkgDownloadRaises
  \/ PkgDownloadReturns
  \/ DownloadModelMain
  \/ RootWriteChunk
  \/ RootDownloadRaises
  \/ RootDownloadReturns

SpecDownload == InitDownload /\ [][NextDownload]_vars

\* ------------------------------------------------------------------ claims on the summarizer

\* C1: summarize_all on a list of N pull requests returns a list of exactly N
\* strings and does not raise, whatever the single model call does (any text,
\* an exception, a malformed response).
C1_SummarizeAllReturnsN ==
  ret.op = "summarize_all" => (~ret.raised /\ Len(ret.value) = Len(ret.args))

\* A call on 2 pull requests whose reply holds one summary only, padded to 2.
C1_Witness ==
  /\ ret.op = "summarize_all"
  /\ Len(ret.args) = 2
  /\ backend = [kind |-> "text", text |-> <<"a">>]
  /\ ret.value = <<<<"a">>, SummaryNotAvailable>>

\* C2: summarize_all on an empty list returns an empty list and makes no call
\* to the model backend.
C2_EmptyListNoModelCall ==
  (ret.op = "summarize_all" /\ ret.args = <<>>) => (ret.value = <<>> /\ ret.ncalls = 0)

\* The non-empty, whitespace-trimmed segments of raw split on "---", in order.
C3_Segments(raw) ==
  LET parts == SplitStr(raw, Separator)
      trimmed == [i \in 1..Len(parts) |-> Strip(parts[i])]
  IN  SelectSeq(trimmed, LAMBDA s : s # <<>>)

\* The first n segments, then "Summary not available" up to n entries.
C3_Expected(raw, n) ==
  LET segs == C3_Segments(raw)
  IN  [i \in 1..n |-> IF i <= Len(segs) THEN segs[i] ELSE SummaryNotAvailable]

\* C3 (as amended): when the model call returns a text, summarize_all on N pull
\* requests returns the non-empty trimmed segments of the text split on "---",
\* in order, cut to the first N and padded with "Summary not available" to N;
\* a text with no separator and some non-whitespace character gives, on 3 pull
\* requests, [trimmed text, "Summary not available", "Summary not available"].
C3_SplitTrimPadTruncate ==
  (ret.op = "summarize_all" /\ backend.kind = "text") =>
    /\ ret.value = C3_Expected(backend.text, Len(ret.args))
    /\ (Len(ret.args) = 3 /\ Occurrences(backend.text, Separator) = {}
          /\ Strip(backend.text) # <<>>) =>
         ret.value = <<Strip(backend.text), SummaryNotAvailable, SummaryNotAvailable>>

\* A reply " a" with no separator, on 3 pull requests.
C3_Witness ==
  /\ ret.op = "summarize_all"
  /\ Len(ret.args) = 3
  /\ backend = [kind |-> "text", text |-> <<" ", "a">>]
  /\ ret.value = <<<<"a">>, SummaryNotAvailable, SummaryNotAvailable>>

\* C3 as first stated: the same law, and EVERY text with no separator gives
\* [trimmed text, "Summary not available", "Summary not available"] on 3 pull
\* requests (a blank text included).
C3_Original ==
  (ret.op = "summarize_all" /\ backend.kind = "text") =>
    /\ ret.value = C3_Expected(backend.text, Len(ret.args))
    /\ (Len(ret.args) = 3 /\ Occurrences(backend.text, Separator) = {}) =>
         ret.value = <<Strip(backend.text), SummaryNotAvailable, SummaryNotAvailable>>

SummarizationOps == {"summarize", "summarize_all", "summarize_pr"}

\* C8: the model is loaded at most once per process, the load happens on the
\* first summarization call and not at construction, and a later call loads
\* nothing.
C8_LoadedOnceOnFirstUse ==
  /\ loads <= 1
  /\ ops = 0 => loads = 0
  /\ (ret.op \in SummarizationOps /\ ret.opsBefore >= 1) => ret.nloads = 0

\* C9: once a load has failed, every later summarization call fails or returns
\* the failure sentinel, and none attempts another load.
C9_NoReloadAfterFailure ==
  (ret.op \in SummarizationOps /\ ret.failedBefore) =>
    /\ ret.nloads = 0
    /\ ret.raised \/ ret.value = ErrorGeneratingSummary

\* C10: a single-PR summarization never raises, and when the backend fails in
\* it (the load raises, the completion call raises or its response is
\* malformed) it returns "Error generating summary".
C10_SingleSummaryNeverRaises ==
  ret.op \in {"summarize", "summarize_pr"} =>
    /\ ~ret.raised
    /\ (ret.loadError \/ backend.kind # "text") => ret.value = ErrorGeneratingSummary

\* LLMSummarizer.summarize has run against a backend whose call raises.
C10_Witness ==
  /\ ret.op = "summarize"
  /\ backend.kind = "raise"
  /\ ret.ncalls = 1
  /\ ret.value = ErrorGeneratingSummary

\* ------------------------------------------------------------------ claims on the clients

\* C4: for every non-2xx status of the listing response, get_recent_prs
\* returns an empty list and does not raise, in each of the three clients.
C4_Non2xxGivesEmptyList ==
  (got.op = "get_recent_prs" /\ got.requests # <<>> /\ net.status \notin 200..299) =>
    (~got.raised /\ got.value = <<>>)

\* owner/name: exactly two parts, neither empty.
WellFormedRepo(rp) ==
  LET parts == SplitStr(rp, <<"/">>)
  IN  Len(parts) = 2 /\ parts[1] # <<>> /\ parts[2] # <<>>

\* A listing answered with status 200 and a list of pull request objects, for
\* a well-formed repository identifier.
C5_ListingSucceeded ==
  /\ got.op = "get_recent_prs"
  /\ WellFormedRepo(repo)
  /\ net.status = 200
  /\ net.body.kind = "list"

\* The K records come back in the order received.
C5_SameOrder ==
  /\ ~got.raised
  /\ Len(got.value) = Len(net.body.prs)
  /\ \A i \in 1..Len(net.body.prs) : got.value[i].number = net.body.prs[i].number

\* C5 (as amended): a status-200 listing of K pull request objects gives
\* exactly K records in the order received. The client of src/github_client.py
\* issues one comments request per listed pull request, in order, and a
\* record's comments are the fetched comment bodies, or empty when that
\* request fails; the other two clients issue no comments request and their
\* records carry no comments.
C5_KRecordsInOrder ==
  C5_ListingSucceeded =>
    /\ C5_SameOrder
    /\ impl = "root" =>
         /\ Len(http) = 1 + Len(net.body.prs)
         /\ \A i \in 1..Len(net.body.prs) :
              /\ http[i + 1] = [url |-> net.body.prs[i].comments_url, what |-> "comments"]
              /\ got.value[i].comments =
                   IF net.comments[i].status = 200
                   THEN [k \in 1..Len(net.comments[i].json) |-> net.comments[i].json[k].body]
                   ELSE <<>>
    /\ impl # "root" =>
         /\ Len(http) = 1
         /\ \A i \in 1..Len(net.body.prs) : "comments" \notin DOMAIN got.value[i]

\* The root client listed 2 pull requests: the first has one comment, the
\* comments request of the second failed.
C5_Witness ==
  /\ C5_ListingSucceeded
  /\ impl = "root"
  /\ Len(got.value) = 2
  /\ net.comments[2].status = 404
  /\ got.value[1].comments = <<PyStr(<<"L","G","T","M">>)>>
  /\ got.value[2].comments = <<>>

\* C5 as first stated: K records in the order received, each with an empty
\* comments sequence, no comments request having been issued.
C5_Original ==
  C5_ListingSucceeded =>
    /\ C5_SameOrder
    /\ \A i \in 1..Len(got.value) : DictGet(got.value[i], "comments", <<>>) = <<>>
    /\ \A k \in 1..Len(http) : http[k].what # "comments"

\* ------------------------------------------------------------------ claims on the prompts

\* The pull request with an absent or null title or body replaced by the text "N/A".
C6_WithNA(pr) ==
  [k \in DOMAIN pr \cup {"title", "body"} |->
     IF k \in {"title", "body"} /\ (k \notin DOMAIN pr \/ pr[k] = PyNone)
     THEN PyStr(NA) ELSE pr[k]]

\* The prompt a summarization operation builds from its arguments.
C6_PromptOf(op, args) ==
  IF op = "summarize" THEN FormatPrPrompt(args[1])
  ELSE IF op = "summarize_pr" THEN CreateSummarizationPrompt(args[1])
  ELSE FormatAllPrsPrompt(args)

\* C6: in every prompt builder, a title or body that is absent or null is
\* rendered as the literal "N/A" (the prompt is the one the same pull request
\* gives with "N/A" as that field's text), and building the prompt never fails.
C6_MissingOrNullRendersNA ==
  (ret.op \in {"summarize", "summarize_all", "summarize_pr"} /\ ret.ncalls = 1) =>
    /\ ~ret.raised
    /\ ret.call.prompt =
         C6_PromptOf(ret.op, [i \in 1..Len(ret.args) |-> C6_WithNA(ret.args[i])])

\* ------------------------------------------------------------------ claims on the batched driver

\* C7: when run() ends after a non-empty listing, every listed pull request
\* has been displayed exactly once, in listing order, with the summary at the
\* same index of summarize_all's result; PRs #10 and #11 with the reply
\* "Summary A\n---\nSummary B" are displayed as (#10, "Summary A") then
\* (#11, "Summary B").
C7_DisplayedOneToOne ==
  (pc = "done" /\ prs # <<>>) =>
    /\ Len(prs) = Len(net.body.prs)
    /\ \A i \in 1..Len(prs) : prs[i].number = net.body.prs[i].number
    /\ Len(summaries) = Len(prs)
    /\ Len(shown) = Len(prs)
    /\ \A i \in 1..Len(prs) : shown[i] = <<prs[i], summaries[i]>>
    /\ (Len(prs) = 2 /\ backend = [kind |-> "text", text |-> ExampleReply]) =>
         /\ shown[1][1].number = 10
         /\ shown[1][2] = <<"S","u","m","m","a","r","y"," ","A">>
         /\ shown[2][1].number = 11
         /\ shown[2][2] = <<"S","u","m","m","a","r","y"," ","B">>

\* The run over PRs #10 and #11 with the reply "Summary A\n---\nSummary B" has ended.
C7_Witness ==
  /\ pc = "done"
  /\ Len(prs) = 2
  /\ backend = [kind |-> "text", text |-> ExampleReply]
  /\ Len(shown) = 2
  /\ shown[2][2] = <<"S","u","m","m","a","r","y"," ","B">>

\* ------------------------------------------------------------------ claims on malformed input

\* C11: for every repository identifier that is not owner/name (no slash,
\* more than one slash, or an empty part), get_recent_prs fails with an error
\* and issues no HTTP request.
C11_MalformedRepoRejected ==
  (got.op = "get_recent_prs" /\ ~WellFormedRepo(repo)) =>
    (got.raised /\ got.requests = <<>>)

\* ------------------------------------------------------------------ claims on the model call

\* C15: for a non-empty list of N pull requests, summarize_all issues exactly
\* one model call, whose max_tokens is config.max_tokens * N and whose
\* temperature is the configured temperature, unmodified.
C15_OneCallScaledMaxTokens ==
  (ret.op = "summarize_all" /\ ret.args # <<>>) =>
    /\ ret.ncalls = 1
    /\ ret.call.max_tokens = cfg.max_tokens * Len(ret.args)
    /\ ret.call.temperature = cfg.temperature

\* summarize_all on 3 pull requests under max_tokens = 64: the call asks for 192.
C15_Witness ==
  /\ ret.op = "summarize_all"
  /\ Len(ret.args) = 3
  /\ cfg.max_tokens = 64
  /\ ret.call.max_tokens = 192
  /\ ret.call.temperature = 0

\* ------------------------------------------------------------------ claims on the comments

\* The comments a record carries when its comments request is answered with r.
C13_CommentsOf(r) ==
  IF r.status = 200 THEN [k \in 1..Len(r.json) |-> r.json[k].body] ELSE <<>>

C19_Contains(text, tok) == Occurrences(text, tok) # {}

\* C19: in every state of each of the three clients, the (non-empty) access
\* token is carried by the Authorization header the client sends with its
\* requests, and by nothing the client writes or requests: no log record
\* (request URL, request parameters, response status, error body) and no
\* request URL contains the token.
C19_TokenOnlyInHeader ==
  (headers # PyNone /\ token.str # <<>>) =>
    /\ headers.Authorization = <<"token ">> \o token.str
    /\ \A k \in 1..Len(logs) : ~C19_Contains(logs[k], token.str)
    /\ \A k \in 1..Len(http) : ~C19_Contains(http[k].url, token.str)

\* The client of src/github_client.py has listed a repository and got a 404:
\* it has logged the URL, the parameters, the status and the error body.
C19_Witness ==
  /\ got.op = "get_recent_prs"
  /\ impl = "root"
  /\ net.status = 404
  /\ C19_Contains(headers.Authorization, Secret)
  /\ \E k \in 1..Len(logs) : logs[k] = <<"Response status: ", "4", "0", "4">>
  /\ \E k \in 1..Len(logs) : logs[k][1] = "Error response: "
  /\ \E k \in 1..Len(logs) : logs[k][1] = "Request parameters: "

\* ------------------------------------------------------------------ claims on single fetch and search

\* C12: get_pr_data fails with an error when the pull request endpoint
\* answers 404 or any other non-2xx status; it never returns a record
\* (possibly empty) in those cases.
C12_Non2xxPullFails ==
  (got.op = "get_pr_data" /\ net.pull.status \notin 200..299) => got.raised

\* The request for page p of the search.
C14_PageRequest(p) ==
  [url |-> <<"https://api.github.com/search/issues", "?page=">> \o IntToStr(p),
   what |-> "search"]

\* C14: get_prs_for_user requests page 1, 2, 3, ... in order, one more page
\* per request, stops at the first page with no items and returns the items
\* of all earlier pages, in page order.
C14_PagesInOrder ==
  got.op = "get_prs_for_user" =>
    /\ ~got.raised
    /\ got.requests = [p \in 1..(Len(net.pages) + 1) |-> C14_PageRequest(p)]
    /\ got.value = Flatten([p \in 1..Len(net.pages) |-> net.pages[p].json.items])

\* ------------------------------------------------------------------ claims on the entry points

\* C16: when the GitHub token is absent or empty the run aborts with a
\* configuration error before any HTTP request: no client is constructed and
\* no request is issued.
C16_MissingTokenAborts ==
  (token = PyNone \/ token = PyStr(<<>>)) =>
    /\ pc \in {"main", "aborted"}
    /\ headers = PyNone
    /\ http = <<>>

\* The outputs emitted so far by the per-PR driver in use.
C17_Outputs == IF impl = "root" THEN shown ELSE summaries

\* Every attempt so far was made on the next listed pull request and gave one
\* output, the failure sentinel when the attempt failed.
C17_OnePerPR ==
  /\ ops = Len(C17_Outputs)
  /\ ops <= Len(prs)
  /\ \A i \in 1..ops :
       /\ C17_Outputs[i][1] = prs[i]
       /\ C17_Outputs[i][2] \in {ErrorGeneratingSummary, Strip(backend.text)}
  /\ ops >= 1 =>
       /\ ~ret.raised
       /\ ret.args = <<prs[ops]>>
       /\ C17_Outputs[ops] = <<prs[ops], ret.value>>
       /\ (ret.loadError \/ backend.kind # "text") => ret.value = ErrorGeneratingSummary

\* C17 (as amended): in the per-PR drivers, for a fetched list of K pull
\* requests, when the model file exists at MODEL_PATH the driver makes exactly
\* one summarization attempt for each of the K pull requests in listing order
\* and emits exactly K outputs, the failing ones carrying the failure
\* sentinel, and no failure stops the loop; when the model file does not exist
\* the driver returns after the listing with no attempt and no output.
C17_EveryPRAttempted ==
  /\ pc = "loop" => C17_OnePerPR
  /\ pc = "done" => (C17_OnePerPR /\ ops = Len(prs) /\ Len(shown) = Len(prs)
                       /\ \A i \in 1..Len(prs) : shown[i][1] = prs[i])
  /\ pc = "error" => ops = 0
  /\ pc = "no_model" => (ops = 0 /\ shown = <<>>)

\* The driver of src/main.py has ended over 3 pull requests whose loads all
\* failed but the last: three attempts, three outputs.
C17_Witness ==
  /\ impl = "root"
  /\ pc = "done"
  /\ Len(prs) = 3
  /\ ops = 3
  /\ loadFailed
  /\ shown[1][2] = ErrorGeneratingSummary
  /\ shown[3][2] = <<"a">>

\* C17 as first stated: whenever K pull requests were fetched, the driver ends
\* having made K attempts and emitted K outputs.
C17_Original ==
  (pc \in {"done", "no_model"} /\ prs # <<>>) =>
    (C17_OnePerPR /\ ops = Len(prs) /\ Len(shown) = Len(prs))

C24_Last == runs[Len(runs)]

C24_Returned == impl = "pkg" /\ pc = "shell" /\ runs # <<>>

\* C24: ModelDownloader.download returns True only if a file is at model_path
\* on return and False only if none is (a download that fails part-way
\* removes the partial file), and a call that finds the file returns True
\* without issuing a request.
C24_ReturnTellsFile ==
  /\ [](C24_Returned =>
          /\ C24_Last.value = "True" => present
          /\ C24_Last.value = "False" => ~present)
  /\ [][(impl = "pkg" /\ pc = "shell" /\ present /\ runs' # runs) =>
          /\ http' = http
          /\ present'
          /\ runs'[Len(runs')].value = "True"]_vars

\* A download has broken off after a chunk was written, and has returned.
C24_Witness ==
  /\ C24_Returned
  /\ C24_Last.kind = "failed"
  /\ dl.status = 200
  /\ dl.failAt > 0
  /\ ~present

\* C25: across the runs of download_model.py, "Model already exists" is
\* reported only if an earlier run's download ran to completion.
C25_ExistsOnlyAfterCompletion ==
  impl = "root" =>
    \A i \in 1..Len(runs) :
      runs[i].kind = "exists" => \E j \in 1..(i - 1) : runs[j].kind = "downloaded"

\* ------------------------------------------------------------------ claims on a refused search page

\* The first page the search endpoint refuses, 0 when it refuses none.
C23_FirstRefused ==
  LET refused == {p \in 1..Len(net.pages) : net.pages[p].status # 200}
  IN  IF refused = {} THEN 0 ELSE CHOOSE p \in refused : \A q \in refused : p <= q

\* C23: in get_prs_for_user a non-200 response on page p ends the pagination
\* without raising, and the function returns exactly the items of pages
\* 1..p-1 (an empty list when p = 1).
C23_RefusedPageTruncates ==
  (got.op = "get_prs_for_user" /\ C23_FirstRefused > 0) =>
    /\ ~got.raised
    /\ got.value =
         Flatten([p \in 1..(C23_FirstRefused - 1) |-> net.pages[p].json.items])

\* ------------------------------------------------------------------ claims on the stop sequence

\* summarize_all has returned for two or more pull requests, on a reply whose
\* text holds no "---".
C22_StopHonoured ==
  /\ ret.op = "summarize_all"
  /\ ~ret.raised
  /\ Len(ret.args) >= 2
  /\ backend.kind = "text"
  /\ Occurrences(backend.text, Separator) = {}

\* C22: summarize_all hands the model the stop sequence "---", the string it
\* splits the output at; so when the returned text holds no "---",
\* summarize_all on N >= 2 pull requests returns at most one summary of the
\* model, at the first position, and "Summary not available" everywhere else.
C22_AtMostOneModelSummary ==
  C22_StopHonoured =>
    /\ ret.call.stop = <<Separator>>
    /\ Len(ret.value) = Len(ret.args)
    /\ ret.value[1] =
         (IF Strip(backend.text) = <<>> THEN SummaryNotAvailable ELSE Strip(backend.text))
    /\ \A i \in 2..Len(ret.value) : ret.value[i] = SummaryNotAvailable

\* Three pull requests and the reply "a-a": one summary and two sentinels.
C22_Witness ==
  /\ C22_StopHonoured
  /\ Len(ret.args) = 3
  /\ backend.text = <<"a", "-", "a">>
  /\ ret.value = <<backend.text, SummaryNotAvailable, SummaryNotAvailable>>

\* ------------------------------------------------------------------ claims on the order of execution

\* The model has been invoked: a load or a completion call has been made.
C21_ModelInvoked == loads > 0 \/ calls > 0

\* Every request so far is a request of the listing, which has returned: the
\* listing request first, then the comments requests.
C21_ListingDone ==
  /\ got.op = "get_recent_prs"
  /\ ~got.raised
  /\ http = got.requests
  /\ http # <<>>
  /\ http[1].what = "listing"
  /\ \A k \in 2..Len(http) : http[k].what = "comments"

\* One step makes at most one summarization, on the pull request after the
\* ones already summarized, with at most one load and one completion call.
C21_OneAtATime ==
  /\ ops' \in {ops, ops + 1}
  /\ calls' \in {calls, calls + 1}
  /\ loads' \in {loads, loads + 1}
  /\ (ops' = ops) => (calls' = calls /\ loads' = loads)
  /\ (ops' = ops + 1) =>
       /\ ops < Len(prs)
       /\ ret'.args = <<prs[ops + 1]>>
       /\ ret'.opsBefore = ops

====
